---------------------------- MODULE Spec2Model ----------------------------
(***************************************************************************)
(* Fixed-rate bond helpers of fc::interest (FinCraftr):                    *)
(*   generate_cashflows, price_fixed_rate_bond, yield_to_maturity, dv01.   *)
(*                                                                         *)
(* Numbers.  The C++ code computes in IEEE doubles.  Here every double is  *)
(* a fixed-point number: the integer v stands for the real v / Scale, and  *)
(* every multiplication and division rounds its exact result to the        *)
(* nearest multiple of 1/Scale, as a double operation rounds to the        *)
(* nearest double.  Scale = 2^10 * 5^2, so 0.05, 1/2, 1/4 and ten          *)
(* successive halvings of 1 are exact, as they are (or nearly are) in      *)
(* doubles.  Frequencies are restricted to values whose reciprocal is      *)
(* exact (1, 2, 4), so that m * t is the integer period index k and        *)
(* std::pow(base, -m*t) is a k-fold division.                              *)
(***************************************************************************)
EXTENDS Integers, Sequences, FiniteSets, TLC

Scale == (2^10) * 25

\* ---------------------------------------------------------------- bounds
\* Largest whole-year tenor offered to the operations.
MaxYears == 2
\* Largest max_iter offered to yield_to_maturity.
MaxIter == 8

\* ------------------------------------------------------- double arithmetic
Abs(x) == IF x < 0 THEN -x ELSE x

\* <<q, r>> with a * b = q * c + r and 0 <= r < c, for b >= 0 and c > 0,
\* computed without forming a * b (which need not fit a machine integer).
\* p = <<a, b, c>>.
MulQR[p \in Int \X Int \X Int] ==
    IF p[2] = 0 THEN <<0, 0>>
    ELSE LET h == MulQR[<<p[1], p[2] \div 2, p[3]>>]
             t == 2 * h[2] + (p[2] % 2) * (p[1] % p[3])
         IN  <<2 * h[1] + (p[2] % 2) * (p[1] \div p[3]) + (t \div p[3]),
               t % p[3]>>

\* a * b / c rounded to the nearest integer (c # 0).
MulDiv(a, b, c) ==
    LET qr == MulQR[<<IF (b < 0) # (c < 0) THEN -a ELSE a, Abs(b), Abs(c)>>]
    IN  IF 2 * qr[2] >= Abs(c) THEN qr[1] + 1 ELSE qr[1]

\* x * y and x / y on doubles.
FMul(x, y) == MulDiv(x, y, Scale)
FDiv(x, y) == MulDiv(x, Scale, y)
\* x / m and x * m for a double x and an int m.
FDivInt(x, m) == MulDiv(x, 1, m)
FromInt(k) == k * Scale

\* std::round on a double: nearest integer, halves away from zero.
Round(x) ==
    IF x >= 0 THEN (x + Scale \div 2) \div Scale
    ELSE -((-x + Scale \div 2) \div Scale)

\* std::pow(base, e) for an exponent e that is a whole number (e % Scale = 0)
\* and a positive base: |e| / Scale successive multiplications or divisions.
\* p = <<base, n>>.
PowInt[p \in Int \X Int] ==
    IF p[2] = 0 THEN Scale
    ELSE IF p[2] > 0 THEN FMul(PowInt[<<p[1], p[2] - 1>>], p[1])
    ELSE FDiv(PowInt[<<p[1], p[2] + 1>>], p[1])

pow(base, e) == PowInt[<<base, e \div Scale>>]

\* Variant: the exponent without its minus sign (a compounding factor).
discount_factor_compounding(rate, m, t) == pow(Scale + FDivInt(rate, m), m * t)

\* discount_factor(rate, m, t) = pow(1.0 + rate / m, -m * t)
discount_factor(rate, m, t) == pow(Scale + FDivInt(rate, m), -(m * t))


\* ------------------------------------------------------ generate_cashflows
\* Variant: the cast alone, without std::round (truncation toward zero).
n_payments_truncated(m, n_years) ==
    IF n_years * m >= 0 THEN (n_years * m) \div Scale
    ELSE -((-(n_years * m)) \div Scale)

\* const int n_payments = static_cast<int>(std::round(n_years * m));
n_payments(m, n_years) == Round(n_years * m)

\* const double dt = 1.0 / m;  ...  k * dt
FlowTime(k, m) == k * FDivInt(Scale, m)

\* const double coupon = coupon_rate * face / m;
Coupon(face, coupon_rate, m) == FDivInt(FMul(coupon_rate, face), m)

\* Variant: the principal pushed as a flow of its own at maturity.
AddPrincipalAsOwnFlow(fl, face) == Append(fl, <<fl[Len(fl)][1], face>>)

\* flows.back().second += face;
AddPrincipal(fl, face) ==
    [fl EXCEPT ![Len(fl)] = <<fl[Len(fl)][1], fl[Len(fl)][2] + face>>]

\* The vector built by the loop and the principal added to its last entry.
Schedule(face, coupon_rate, m, n_years) ==
    AddPrincipal([k \in 1..n_payments(m, n_years) |->
                     <<FlowTime(k, m), Coupon(face, coupon_rate, m)>>], face)

\* What a call of generate_cashflows can end with.
\*   n_payments > 0 : the schedule.
\*   n_payments < 0 : flows.reserve(n_payments) converts the negative int to
\*                    a size_type above max_size() and throws std::length_error.
\*   n_payments = 0 : flows.back() on an empty vector is undefined behaviour:
\*                    the process is killed by the stray write, or the write
\*                    goes unnoticed and the empty vector is returned.
Outcome(kind, fl) == [kind |-> kind, flows |-> fl]
generate_cashflows(face, coupon_rate, m, n_years) ==
    LET n == n_payments(m, n_years)
    IN  IF n < 0 THEN {Outcome("length_error", <<>>)}
        ELSE IF n = 0 THEN {Outcome("crash", <<>>), Outcome("ok", <<>>)}
        ELSE {Outcome("ok", Schedule(face, coupon_rate, m, n_years))}

\* ------------------------------------------------------------------ curves
\* const std::function<double(double)>& curve: the caller's zero curve y(t).
\*   flat    : a for every t
\*   linear  : a + b * t
\*   failing : a for t <= b, throws for t > b
Curve(kind, a, b) == [kind |-> kind, a |-> a, b |-> b]
Flat(r) == Curve("flat", r, 0)
CurveAt(c, t) ==
    IF c.kind = "flat" THEN [ok |-> TRUE, rate |-> c.a]
    ELSE IF c.kind = "linear" THEN [ok |-> TRUE, rate |-> c.a + FMul(c.b, t)]
    ELSE IF t <= c.b THEN [ok |-> TRUE, rate |-> c.a]
    ELSE [ok |-> FALSE, rate |-> 0]

\* --------------------------------------------------------- yield_to_maturity
\* auto pv_at = [&](double y) { pv = 0; for (t, cf) pv += cf * df(y, m, t); }
RECURSIVE PvUpTo(_, _, _, _)
PvUpTo(fl, m, yy, j) ==
    IF j = 0 THEN 0
    ELSE PvUpTo(fl, m, yy, j - 1)
         + FMul(fl[j][2], discount_factor(yy, m, fl[j][1]))
\* Variant: the flows summed without discounting.
pv_at_undiscounted(fl, m, yy) == PvUpTo(fl, m, 0, Len(fl))

pv_at(fl, m, yy) == PvUpTo(fl, m, yy, Len(fl))

\* d_pv += -m * t * cf * discount_factor(y, m, t) / (1.0 + y / m);
RECURSIVE DpvUpTo(_, _, _, _)
DpvUpTo(fl, m, yy, j) ==
    IF j = 0 THEN 0
    ELSE DpvUpTo(fl, m, yy, j - 1)
         + FDiv(FMul(FMul(-(m * fl[j][1]), fl[j][2]),
                     discount_factor(yy, m, fl[j][1])),
                Scale + FDivInt(yy, m))
\* Variant: the derivative without its minus sign.
d_pv_unsigned(fl, m, yy) == -DpvUpTo(fl, m, yy, Len(fl))

d_pv(fl, m, yy) == DpvUpTo(fl, m, yy, Len(fl))

\* An infinite double (the result of dividing a non-zero double by 0.0).
Inf == 2^30

\* double step = diff / d_pv;  y -= step;
NewtonUpdate(yy, df, dpv) ==
    IF dpv = 0 THEN (IF df > 0 THEN -Inf ELSE Inf)
    ELSE yy - FDiv(df, dpv)

\* Variant: the test without std::abs.
ConvergedSigned(df, tol) == df < tol

\* if (std::abs(diff) < tol) return y;
Converged(df, tol) == Abs(df) < tol

\* Variant: only the lower end of the interval is guarded.
DivergedBelow(yy) == ~(yy > 0)

\* if (!(y > 0.0 && y < 1.0)) break;
Diverged(yy) == ~(yy > 0 /\ yy < Scale)

\* Variant: the bracket cut at a third instead of a half.
MidThird(l, h) == l + FDivInt(h - l, 3)

\* Variant: the upper end of the bracket taken for the midpoint.
MidUpper(l, h) == h

\* Variant: the midpoint without its factor 0.5.
MidUnhalved(l, h) == l + h

\* double mid = 0.5 * (lo + hi);
Mid(l, h) == FMul(Scale \div 2, l + h)

\* Variant: the comparison reversed.
PriceBelow(pvm, price) == pvm < price

\* Variant: the price equal to the market price moves lo, not hi.
PriceAboveOrEqual(pvm, price) == pvm >= price

\* if (pv_at(mid) > price) lo = mid; else hi = mid;
PriceAbove(pvm, price) == pvm > price

\* Variant: the bracket counted as closed at twice the tolerance.
BracketClosedWide(l, h, tol) == h - l < 2 * tol

\* Variant: the operands of the subtraction swapped.
BracketClosedSwapped(l, h, tol) == l - h < tol

\* if (hi - lo < tol) return mid;
BracketClosed(l, h, tol) == h - l < tol


\* ------------------------------------------------------------------ inputs
Pct(n) == (n * Scale) \div 100

Instrument(face, coupon_rate, m, n_years) ==
    [face |-> face, coupon_rate |-> coupon_rate, m |-> m, n_years |-> n_years]

Faces == {FromInt(-100), 0, FromInt(100), FromInt(1000)}
CouponRates == {0, Pct(5)}
Freqs == {-2, 0, 1, 2, 4}
\* whole years, and 0, 0.1, 0.25, 0.98 and -1 years
Tenors == {FromInt(k) : k \in 1..MaxYears}
            \cup {0, Pct(10), Pct(25), Pct(98), FromInt(-1)}

\* Every combination is offered to generate_cashflows.
SchedulerInputs ==
    {Instrument(f, c, m, n) : f \in Faces, c \in CouponRates,
                              m \in Freqs, n \in Tenors}

\* The bonds offered to the pricer, the solver and dv01: well-formed ones ...
Bonds ==
    {Instrument(FromInt(1000), c, m, n) :
        c \in CouponRates, m \in {1, 2},
        n \in {FromInt(k) : k \in 1..MaxYears} \cup {Pct(98)}}
\* ... and ones with a non-positive face, tenor or frequency.
BadBonds ==
    { Instrument(0, Pct(5), 2, FromInt(1)),
      Instrument(FromInt(-100), Pct(5), 1, FromInt(1)),
      Instrument(FromInt(1000), Pct(5), 2, 0),
      Instrument(FromInt(1000), Pct(5), 2, FromInt(-1)),
      Instrument(FromInt(1000), Pct(5), 0, FromInt(1)),
      Instrument(FromInt(1000), Pct(5), -2, FromInt(-1)) }

\* The solver is not offered the bond of negative frequency: with it
\* 1 + y / m is below 1 and the prices leave the range of the number model.
SolverBonds == Bonds \cup {b \in BadBonds : b.m >= 0}

Curves == { Flat(Pct(5)),
            Curve("linear", Pct(2), Pct(1)),
            Curve("failing", Pct(4), FromInt(1)),
            Curve("failing", Pct(4), 0) }

MarketPrices ==
    {FromInt(100), FromInt(800), FromInt(900), FromInt(1000), FromInt(5000)}
Tolerances == {1, Pct(1)}
MaxIters == {-1, 0, 1, 3, MaxIter}
Guesses == {Pct(3), Pct(90), Pct(150)}
Ytms == {Pct(3), Pct(5)}
Bumps == {0, Pct(1)}
\* Market prices handed to dv01.
Dv01Prices == {FromInt(900), FromInt(1000)}

NoArgs == [ins |-> Instrument(0, 0, 0, 0), price |-> 0, tol |-> 0,
           max_iter |-> 0, guess |-> 0, ytm |-> 0, bp |-> 0]
NoCurve == Curve("none", 0, 0)
NoResult == [kind |-> "none", val |-> 0, flows |-> <<>>]
Value(v) == [kind |-> "value", val |-> v, flows |-> <<>>]
Thrown(e) == [kind |-> e, val |-> 0, flows |-> <<>>]

\* ------------------------------------------------------------------- state
\* price_fixed_rate_bond as a value: the loop of the pricer over the flows
\* of a proper schedule on a curve that answers every query.
PvLoopArgs == Seq(Int \X Int) \X [kind : STRING, a : Int, b : Int] \X Int \X Nat
PvLoop[p \in PvLoopArgs] ==
    LET fl == p[1]  c == p[2]  m == p[3]  k == p[4] IN
    IF k = 0 THEN 0
    ELSE PvLoop[<<fl, c, m, k - 1>>]
           + FMul(fl[k][2], discount_factor(CurveAt(c, fl[k][1]).rate, m, fl[k][1]))

price_fixed_rate_bond(ins, c) ==
    LET fl == Schedule(ins.face, ins.coupon_rate, ins.m, ins.n_years)
    IN  PvLoop[<<fl, c, ins.m, Len(fl)>>]

\* Round-trip inputs: the valid bonds and a valid bond of face 0.01, each
\* priced at a flat rate inside (0, 1).
SmallBond == Instrument(Pct(1), 0, 1, FromInt(1))
RoundTripBonds == Bonds \cup {SmallBond}
FlatRates == {Pct(3), Pct(50)}

\* Interleaved solver calls: how many, and what they are called with.
NCalls == 2
Calls == 1..NCalls
ZeroAnnual == Instrument(FromInt(1000), 0, 1, FromInt(1))
CouponSemi == Instrument(FromInt(1000), Pct(5), 2, FromInt(1))
SolverArgs(b, r, tol, mi, g) ==
    [NoArgs EXCEPT !.ins = b, !.price = price_fixed_rate_bond(b, Flat(r)),
                   !.tol = tol, !.max_iter = mi, !.guess = g]
ConcArgs ==
    { SolverArgs(ZeroAnnual, Pct(25), Pct(1), MaxIter, Pct(3)),  \* Newton converges
      SolverArgs(CouponSemi, Pct(3), Pct(1), 3, Pct(150)),       \* bisection fails
      SolverArgs(ZeroAnnual, Pct(3), Pct(25), 3, Pct(150)) }     \* bisection returns

\* The locals of one yield_to_maturity call, before they are initialised.
NoLocals == [flows |-> <<>>, y |-> 0, i |-> 0, diff |-> 0, lo |-> 0, hi |-> 0, mid |-> 0]

VARIABLES
    pc,        \* where the running call stands ("idle": no call is running)
    op,        \* the function the caller called
    args,      \* its arguments
    curve,     \* the curve of the running price_fixed_rate_bond call
    flows,     \* the schedule the running function holds
    idx,       \* price_fixed_rate_bond: index of the next flow of the loop
    pv,        \* price_fixed_rate_bond: double pv
    queries,   \* the times at which the running pricer call evaluated curve
    leg,       \* dv01: 0 outside dv01, 1 in the pv_up call, 2 in the pv_down call
    pv_up,     \* dv01: double pv_up
    y,         \* yield_to_maturity: double y
    i,         \* yield_to_maturity: int i of the running loop
    diff,      \* yield_to_maturity: double diff
    lo, hi,    \* yield_to_maturity: the bisection bracket
    mid,       \* yield_to_maturity: double mid
    phase,     \* yield_to_maturity: "none", "newton", "bisect"
    handoff,   \* how the Newton loop was left: "none", "guard", "exhausted"
    nNewton,   \* Newton iterations begun by the running call
    nBisect,   \* bisection iterations begun by the running call
    nPrice,    \* price_fixed_rate_bond calls made by the running call
    result,    \* what the call ended with
    quote,     \* caller: the flat rate at which it priced the bond whose
               \* price it passed to yield_to_maturity (-1: no such rate)
    calls,     \* interleaved solver calls: position, arguments and outcome
    store      \* interleaved solver calls: the storage holding their locals

vars == <<pc, op, args, curve, flows, idx, pv, queries, leg, pv_up, y, i, diff,
          lo, hi, mid, phase, handoff, nNewton, nBisect, nPrice, result,
          quote, calls, store>>
concVars == <<calls, store>>

pricerVars == <<curve, flows, idx, pv, queries, leg, pv_up, nPrice>>
solverVars == <<y, i, diff, lo, hi, mid, phase, handoff, nNewton, nBisect>>

Init ==
    /\ pc = "idle" /\ op = "none" /\ args = NoArgs /\ curve = NoCurve
    /\ flows = <<>> /\ idx = 0 /\ pv = 0 /\ queries = <<>>
    /\ leg = 0 /\ pv_up = 0
    /\ y = 0 /\ i = 0 /\ diff = 0 /\ lo = 0 /\ hi = 0 /\ mid = 0
    /\ phase = "none" /\ handoff = "none"
    /\ nNewton = 0 /\ nBisect = 0 /\ nPrice = 0
    /\ result = NoResult
    /\ quote = -1
    /\ calls = [c \in Calls |-> [pc |-> "idle", args |-> NoArgs, result |-> NoResult]]
    /\ store = [c \in Calls |-> NoLocals]

\* The function ends: with a value, or by throwing.
Finish(r) == pc' = "done" /\ result' = r

\* ------------------------------------------------------ generate_cashflows
CallGenerate ==
    /\ pc = "idle"
    /\ \E ins \in SchedulerInputs :
         /\ op' = "generate_cashflows"
         /\ args' = [NoArgs EXCEPT !.ins = ins]
         /\ \E out \in generate_cashflows(ins.face, ins.coupon_rate, ins.m, ins.n_years) :
              Finish([kind |-> IF out.kind = "ok" THEN "schedule" ELSE out.kind,
                      val |-> 0, flows |-> out.flows])
    /\ UNCHANGED <<pricerVars, solverVars>>
    /\ UNCHANGED <<quote, concVars>>

\* --------------------------------------------------- price_fixed_rate_bond
\* Variant: the loop stops one element early.
LoopDoneEarly(k, fl) == k >= Len(fl)

\* for (auto [t, cf] : ...): the range-for ends after the last element.
LoopDone(k, fl) == k > Len(fl)

\* Variant: every flow is discounted at the rate of the maturity date.
QueryMaturity(fl, k) == fl[Len(fl)][1]

\* const double y = curve(t);  the time the curve is asked for is the flow's own.
QueryTime(fl, k) == fl[k][1]

\* Variant: the pricer catches the exception and returns the sum so far.
PricerSwallows(e) == Finish(Value(pv))

\* An exception leaves price_fixed_rate_bond (no try block there), and leaves
\* dv01 when dv01 made the call (no try block there either).
PricerThrows(e) == Finish(Thrown(e))

\* Entry of price_fixed_rate_bond(ins, c): the range-for evaluates
\* generate_cashflows once, then pv = 0.0 and the loop starts.
EnterPricer(ins, c) ==
    /\ nPrice' = nPrice + 1
    /\ curve' = c
    /\ queries' = <<>>
    /\ pv' = 0
    /\ \E out \in generate_cashflows(ins.face, ins.coupon_rate, ins.m, ins.n_years) :
         IF out.kind = "ok"
         THEN /\ flows' = out.flows /\ idx' = 1
              /\ pc' = "price_loop" /\ result' = result
         ELSE /\ flows' = <<>> /\ idx' = 0
              /\ PricerThrows(out.kind)

CallPrice ==
    /\ pc = "idle"
    /\ \E ins \in Bonds \cup BadBonds, c \in Curves :
         /\ op' = "price_fixed_rate_bond"
         /\ args' = [NoArgs EXCEPT !.ins = ins]
         /\ EnterPricer(ins, c)
    /\ UNCHANGED <<leg, pv_up, solverVars>>
    /\ UNCHANGED <<quote, concVars>>

\* One pass of the loop body: y = curve(t); pv += cf * discount_factor(y, m, t).
\* A curve that throws ends the function (and dv01 around it): nothing catches.
PriceStep ==
    /\ pc = "price_loop"
    /\ ~LoopDone(idx, flows)
    /\ LET t  == flows[idx][1]
           cf == flows[idx][2]
           r  == CurveAt(curve, QueryTime(flows, idx))
       IN  /\ queries' = Append(queries, QueryTime(flows, idx))
           /\ IF r.ok
              THEN /\ pv' = pv + FMul(cf, discount_factor(r.rate, args.ins.m, t))
                   /\ idx' = idx + 1
                   /\ UNCHANGED <<pc, result>>
              ELSE /\ PricerThrows("curve_error")
                   /\ UNCHANGED <<pv, idx>>
    /\ UNCHANGED <<op, args, curve, flows, leg, pv_up, nPrice, solverVars>>
    /\ UNCHANGED <<quote, concVars>>

\* return pv;  (to the caller, or to dv01)
\* Variant: the difference without its factor 0.5.
CentralDifferenceUnhalved(pv_down, pv_upward) == pv_down - pv_upward

\* Variant: the operands of the difference swapped.
CentralDifferenceSwapped(pv_down, pv_upward) ==
    FMul(Scale \div 2, pv_upward - pv_down)

\* return 0.5 * (pv_down - pv_up);
CentralDifference(pv_down, pv_upward) == FMul(Scale \div 2, pv_down - pv_upward)

\* Variant: the difference reported relative to the market price.
Dv01ReturnPerPrice(price, pv_down, pv_upward) ==
    FDiv(CentralDifference(pv_down, pv_upward), price)

\* The return statement of dv01; its parameter price is in scope and is
\* not read.
Dv01Return(price, pv_down, pv_upward) == CentralDifference(pv_down, pv_upward)

PriceReturn ==
    /\ pc = "price_loop"
    /\ LoopDone(idx, flows)
    /\ IF leg = 0
       THEN /\ Finish(Value(pv))
            /\ UNCHANGED <<pricerVars>>
       ELSE IF leg = 1
       THEN \* double pv_up = ...;  double pv_down = price_fixed_rate_bond(.., curve_down)
            /\ pv_up' = pv
            /\ leg' = 2
            /\ EnterPricer(args.ins, Flat(args.ytm - args.bp))
       ELSE \* return 0.5 * (pv_down - pv_up);
            /\ Finish(Value(Dv01Return(args.price, pv, pv_up)))
            /\ UNCHANGED <<pricerVars>>
    /\ UNCHANGED <<op, args, solverVars>>
    /\ UNCHANGED <<quote, concVars>>

\* -------------------------------------------------------------------- dv01
CallDv01 ==
    /\ pc = "idle"
    /\ \E ins \in Bonds \cup BadBonds, p \in Dv01Prices, ytm \in Ytms, bp \in Bumps :
         /\ op' = "dv01"
         /\ args' = [NoArgs EXCEPT !.ins = ins, !.price = p, !.ytm = ytm, !.bp = bp]
         /\ leg' = 1
         /\ EnterPricer(ins, Flat(ytm + bp))
    /\ UNCHANGED <<pv_up, solverVars>>
    /\ UNCHANGED <<quote, concVars>>


\* --------------------------------------------------------- yield_to_maturity
\* const auto flows = generate_cashflows(...);  double y = guess;  i = 0
EnterSolver(ins, p, tol, mi, g) ==
    /\ op' = "yield_to_maturity"
    /\ args' = [NoArgs EXCEPT !.ins = ins, !.price = p, !.tol = tol,
                              !.max_iter = mi, !.guess = g]
    /\ \E out \in generate_cashflows(ins.face, ins.coupon_rate, ins.m, ins.n_years) :
         IF out.kind = "ok"
         THEN /\ flows' = out.flows
              /\ y' = g /\ i' = 0 /\ phase' = "newton"
              /\ pc' = "newton_head" /\ result' = result
         ELSE /\ flows' = <<>>
              /\ Finish(Thrown(out.kind))
              /\ UNCHANGED <<y, i, phase>>
    /\ UNCHANGED <<curve, idx, pv, queries, leg, pv_up, nPrice,
                   diff, lo, hi, mid, handoff, nNewton, nBisect>>

CallYtm ==
    /\ pc = "idle"
    /\ \E ins \in SolverBonds, p \in MarketPrices, tol \in Tolerances,
          mi \in MaxIters, g \in Guesses :
         EnterSolver(ins, p, tol, mi, g)
    /\ UNCHANGED <<quote, concVars>>

\* A caller prices the bond on a flat curve at rate r and hands that price
\* to the solver (the round trip price -> yield).
CallYtmOfPrice ==
    /\ pc = "idle"
    /\ \E ins \in RoundTripBonds, r \in FlatRates, tol \in Tolerances,
          mi \in MaxIters, g \in Guesses :
         /\ EnterSolver(ins, price_fixed_rate_bond(ins, Flat(r)), tol, mi, g)
         /\ quote' = r
    /\ UNCHANGED concVars

\* Variant: the loop condition tested after the body (do ... while).
InBudgetAfterFirst(k, n) == k = 0 \/ k < n

\* i < max_iter of both for loops.
InBudget(k, n) == k < n

\* Variant: the loop counter is never advanced.
NextIterationStuck(k) == k

\* ++i of both for loops.
NextIteration(k) == k + 1

\* Variant: the last Newton iterate is returned when the iterations run out.
NewtonExhaustedReturns ==
    /\ handoff' = "exhausted"
    /\ Finish(Value(y))

\* Variant: the failure is raised as soon as Newton runs out of iterations.
NewtonExhaustedThrows ==
    /\ handoff' = "exhausted"
    /\ Finish(Thrown("runtime_error"))

\* The Newton loop ends because i < max_iter fails: control falls to the
\* bisection safeguard below it.
NewtonExhausted ==
    /\ handoff' = "exhausted"
    /\ pc' = "bisect_init"
    /\ UNCHANGED result

\* for (int i = 0; i < max_iter; ++i) {  pv = pv_at(y);  diff = pv - price;
NewtonHead ==
    /\ pc = "newton_head"
    /\ IF InBudget(i, args.max_iter)
       THEN /\ diff' = pv_at(flows, args.ins.m, y) - args.price
            /\ nNewton' = nNewton + 1
            /\ pc' = "newton_test"
            /\ UNCHANGED <<handoff, result>>
       ELSE /\ NewtonExhausted
            /\ UNCHANGED <<diff, nNewton>>
    /\ UNCHANGED <<op, args, flows, pricerVars, y, i, lo, hi, mid, phase,
                   nBisect>>
    /\ UNCHANGED <<quote, concVars>>

\* if (std::abs(diff) < tol) return y;
NewtonTest ==
    /\ pc = "newton_test"
    /\ IF Converged(diff, args.tol)
       THEN Finish(Value(y))
       ELSE pc' = "newton_step" /\ UNCHANGED result
    /\ UNCHANGED <<op, args, flows, pricerVars, solverVars>>
    /\ UNCHANGED <<quote, concVars>>

\* d_pv = sum ...;  step = diff / d_pv;  y -= step;
NewtonStep ==
    /\ pc = "newton_step"
    /\ y' = NewtonUpdate(y, diff, d_pv(flows, args.ins.m, y))
    /\ pc' = "newton_guard"
    /\ UNCHANGED <<op, args, flows, pricerVars, i, diff, lo, hi, mid, phase,
                   handoff, nNewton, nBisect, result>>
    /\ UNCHANGED <<quote, concVars>>

\* if (!(y > 0.0 && y < 1.0)) break;   }  (++i)
NewtonGuard ==
    /\ pc = "newton_guard"
    /\ IF Diverged(y)
       THEN /\ handoff' = "guard"
            /\ pc' = "bisect_init"
            /\ UNCHANGED i
       ELSE /\ i' = NextIteration(i)
            /\ pc' = "newton_head"
            /\ UNCHANGED handoff
    /\ UNCHANGED <<op, args, flows, pricerVars, y, diff, lo, hi, mid, phase,
                   nNewton, nBisect, result>>
    /\ UNCHANGED <<quote, concVars>>

\* double lo = 0.0, hi = 1.0;  for (int i = 0; ...
BisectInit ==
    /\ pc = "bisect_init"
    /\ lo' = 0 /\ hi' = Scale /\ i' = 0
    /\ phase' = "bisect"
    /\ pc' = "bisect_head"
    /\ UNCHANGED <<op, args, flows, pricerVars, y, diff, mid, handoff,
                   nNewton, nBisect, result>>
    /\ UNCHANGED <<quote, concVars>>

\* Variant: the last mid is returned when the iterations run out.
BisectExhaustedReturns == Finish(Value(mid))

\* throw std::runtime_error("yield_to_maturity did not converge");
BisectExhausted == Finish(Thrown("runtime_error"))

\* ... i < max_iter; ++i) {   and, when the loop is left, the throw.
BisectHead ==
    /\ pc = "bisect_head"
    /\ IF InBudget(i, args.max_iter)
       THEN /\ nBisect' = nBisect + 1
            /\ pc' = "bisect_body"
            /\ UNCHANGED result
       ELSE /\ BisectExhausted
            /\ UNCHANGED nBisect
    /\ UNCHANGED <<op, args, flows, pricerVars, y, i, diff, lo, hi, mid, phase,
                   handoff, nNewton>>
    /\ UNCHANGED <<quote, concVars>>

\* mid = 0.5 * (lo + hi);  if (pv_at(mid) > price) lo = mid; else hi = mid;
\* if (hi - lo < tol) return mid;
BisectBody ==
    /\ pc = "bisect_body"
    /\ LET m_   == Mid(lo, hi)
           up   == PriceAbove(pv_at(flows, args.ins.m, m_), args.price)
           nlo  == IF up THEN m_ ELSE lo
           nhi  == IF up THEN hi ELSE m_
       IN  /\ mid' = m_ /\ lo' = nlo /\ hi' = nhi
           /\ IF BracketClosed(nlo, nhi, args.tol)
              THEN Finish(Value(m_)) /\ UNCHANGED i
              ELSE i' = NextIteration(i) /\ pc' = "bisect_head" /\ UNCHANGED result
    /\ UNCHANGED <<op, args, flows, pricerVars, y, diff, phase, handoff,
                   nNewton, nBisect>>
    /\ UNCHANGED <<quote, concVars>>

\* ------------------------------------------------------------------ caller
\* The call has returned or thrown; its locals are gone and the caller may
\* call again.
Return ==
    /\ pc = "done"
    /\ pc' = "idle" /\ op' = "none" /\ args' = NoArgs /\ curve' = NoCurve
    /\ flows' = <<>> /\ idx' = 0 /\ pv' = 0 /\ queries' = <<>>
    /\ leg' = 0 /\ pv_up' = 0
    /\ y' = 0 /\ i' = 0 /\ diff' = 0 /\ lo' = 0 /\ hi' = 0 /\ mid' = 0
    /\ phase' = "none" /\ handoff' = "none"
    /\ nNewton' = 0 /\ nBisect' = 0 /\ nPrice' = 0
    /\ result' = NoResult
    /\ quote' = -1
    /\ UNCHANGED concVars

\* ------------------------------------------------- interleaved solver calls
\* One step of yield_to_maturity as a function of the position pcv, the
\* arguments a and the locals L: the new position, locals and outcome.
\* Same steps as the actions above.
SolverStep(pcv, a, L) ==
    LET at(p, l) == [pc |-> p, loc |-> l, result |-> NoResult]
        end(r)   == [pc |-> "done", loc |-> L, result |-> r]
    IN
    CASE pcv = "start" ->
           at("newton_head",
              [NoLocals EXCEPT
                 !.flows = Schedule(a.ins.face, a.ins.coupon_rate, a.ins.m, a.ins.n_years),
                 !.y = a.guess])
      [] pcv = "newton_head" ->
           IF InBudget(L.i, a.max_iter)
           THEN at("newton_test",
                   [L EXCEPT !.diff = pv_at(L.flows, a.ins.m, L.y) - a.price])
           ELSE at("bisect_init", L)
      [] pcv = "newton_test" ->
           IF Converged(L.diff, a.tol) THEN end(Value(L.y))
           ELSE at("newton_step", L)
      [] pcv = "newton_step" ->
           at("newton_guard",
              [L EXCEPT !.y = NewtonUpdate(L.y, L.diff, d_pv(L.flows, a.ins.m, L.y))])
      [] pcv = "newton_guard" ->
           IF Diverged(L.y) THEN at("bisect_init", L)
           ELSE at("newton_head", [L EXCEPT !.i = NextIteration(L.i)])
      [] pcv = "bisect_init" ->
           at("bisect_head", [L EXCEPT !.lo = 0, !.hi = Scale, !.i = 0])
      [] pcv = "bisect_head" ->
           IF InBudget(L.i, a.max_iter) THEN at("bisect_body", L)
           ELSE end(Thrown("runtime_error"))
      [] pcv = "bisect_body" ->
           LET m_  == Mid(L.lo, L.hi)
               up  == PriceAbove(pv_at(L.flows, a.ins.m, m_), a.price)
               nlo == IF up THEN m_ ELSE L.lo
               nhi == IF up THEN L.hi ELSE m_
               L2  == [L EXCEPT !.mid = m_, !.lo = nlo, !.hi = nhi]
           IN  IF BracketClosed(nlo, nhi, a.tol)
               THEN [pc |-> "done", loc |-> L2, result |-> Value(m_)]
               ELSE at("bisect_head", [L2 EXCEPT !.i = NextIteration(L.i)])

\* Variant: the locals declared static, one storage for every call.
SlotShared(c) == 1

\* The locals of call c have automatic storage: a frame of its own.
Slot(c) == c

\* A thread calls yield_to_maturity; the arguments are passed by value.
Begin(c) ==
    /\ calls[c].pc = "idle"
    /\ \E a \in ConcArgs :
         calls' = [calls EXCEPT ![c] = [pc |-> "start", args |-> a, result |-> NoResult]]
    /\ UNCHANGED store

\* The call of thread c takes its next step on its locals.
Step(c) ==
    /\ calls[c].pc \notin {"idle", "done"}
    /\ LET r == SolverStep(calls[c].pc, calls[c].args, store[Slot(c)])
       IN  /\ calls' = [calls EXCEPT ![c].pc = r.pc, ![c].result = r.result]
           /\ store' = [store EXCEPT ![Slot(c)] = r.loc]

seqVars == <<pc, op, args, curve, flows, idx, pv, queries, leg, pv_up, y, i,
             diff, lo, hi, mid, phase, handoff, nNewton, nBisect, nPrice,
             result, quote>>

BeginCall == \E c \in Calls : Begin(c) /\ UNCHANGED seqVars
StepCall == \E c \in Calls : Step(c) /\ UNCHANGED seqVars

NextConc == BeginCall \/ StepCall

SpecConc == Init /\ [][NextConc]_vars

Next ==
    \/ CallGenerate
    \/ CallPrice \/ PriceStep \/ PriceReturn
    \/ CallDv01
    \/ CallYtm
    \/ CallYtmOfPrice
    \/ NewtonHead \/ NewtonTest \/ NewtonStep \/ NewtonGuard
    \/ BisectInit \/ BisectHead \/ BisectBody
    \/ Return

Spec == Init /\ [][Next]_vars

\* A call that has started runs to completion: the program is synchronous,
\* single-threaded per call and has no suspension point, so a step of the
\* running call that can be taken is taken.
RunNext ==
    \/ PriceStep \/ PriceReturn
    \/ NewtonHead \/ NewtonTest \/ NewtonStep \/ NewtonGuard
    \/ BisectInit \/ BisectHead \/ BisectBody

FairSpec == Spec /\ WF_vars(RunNext)

\* A step of RunNext can be taken exactly when a call is running, so
\* ENABLED <<RunNext>>_vars is the state predicate Running, and
\* WF_vars(RunNext) = []<>(~ENABLED <<RunNext>>_vars) \/ []<><<RunNext>>_vars
\* is the fairness condition of FairRun.
Running == pc \notin {"idle", "done"}
FairRun == Spec /\ ([]<>(~Running) \/ []<><<RunNext>>_vars)


\* ====================================================================
\* Properties
\* ====================================================================
Done(f) == pc = "done" /\ op = f

\* The iterations a loop  for (i = 0; i < max_iter; ++i)  can make.
Budget == IF args.max_iter > 0 THEN args.max_iter ELSE 0

\* round(x) of a non-negative real x given in units of 1 / Scale.
NearestInt(x) == (2 * x + Scale) \div (2 * Scale)

\* The call of generate_cashflows that has just ended had a positive
\* frequency and a positive tenor of at least one (rounded) period.
ProperScheduleCall ==
    /\ Done("generate_cashflows")
    /\ args.ins.m > 0 /\ args.ins.n_years > 0
    /\ NearestInt(args.ins.n_years * args.ins.m) >= 1

\* C1: for a positive frequency and a positive tenor with
\* n = round(tenor_years * frequency) >= 1, generate_cashflows returns exactly
\* n entries, the k-th at time k / frequency; the times are strictly
\* increasing and the last one is n / frequency.
C1_OneEntryPerPeriod ==
    ProperScheduleCall =>
        LET n  == NearestInt(args.ins.n_years * args.ins.m)
            fl == result.flows
        IN  /\ result.kind = "schedule"
            /\ Len(fl) = n
            /\ \A k \in 1..Len(fl) : fl[k][1] * args.ins.m = k * Scale
            /\ \A k \in 1..(Len(fl) - 1) : fl[k][1] < fl[k + 1][1]
            /\ fl[Len(fl)][1] * args.ins.m = n * Scale

\* A tenor that is not a whole number of periods: 0.98 years, quarterly,
\* rounds to 4 periods.
C1_Witness ==
    /\ ProperScheduleCall
    /\ args.ins.m = 4 /\ args.ins.n_years = Pct(98)
    /\ Len(result.flows) = 4

\* C2: in the schedule returned by generate_cashflows every entry but the
\* last has amount coupon_rate * face / frequency, the last has that amount
\* plus face, and the principal is no entry of its own; face = 1000,
\* coupon_rate = 0.05, frequency = 2, tenor = 2 gives 25, 25, 25, 1025 at
\* 0.5, 1.0, 1.5, 2.0.
C2_CouponAmounts ==
    (Done("generate_cashflows") /\ result.kind = "schedule") =>
        LET fl == result.flows
            \* coupon_rate * face, for a face that is a whole number
            cf == args.ins.coupon_rate * (args.ins.face \div Scale)
        IN  /\ \A k \in 1..(Len(fl) - 1) : fl[k][2] * args.ins.m = cf
            /\ Len(fl) >= 1 =>
                 /\ (fl[Len(fl)][2] - args.ins.face) * args.ins.m = cf
                 /\ Len(fl) = Abs(NearestInt(Abs(args.ins.n_years * args.ins.m)))
            /\ args.ins = Instrument(FromInt(1000), Pct(5), 2, FromInt(2)) =>
                 fl = << <<Scale \div 2, FromInt(25)>>,
                         <<Scale, FromInt(25)>>,
                         <<Scale + Scale \div 2, FromInt(25)>>,
                         <<2 * Scale, FromInt(1025)>> >>

\* The example of the specification has been scheduled.
C2_Witness ==
    /\ Done("generate_cashflows") /\ result.kind = "schedule"
    /\ args.ins = Instrument(FromInt(1000), Pct(5), 2, FromInt(2))
    /\ Len(result.flows) = 4

\* C3 (as claimed): whenever round(tenor_years * frequency) is 0,
\* generate_cashflows fails with InvalidSchedule; it returns no empty
\* sequence and touches no last entry.
C3_DegenerateScheduleRejected ==
    (Done("generate_cashflows")
       /\ Abs(args.ins.n_years * args.ins.m) < Scale \div 2)
        => result.kind = "InvalidSchedule"


\* C4 (as claimed): a call of generate_cashflows, price_fixed_rate_bond,
\* yield_to_maturity or dv01 with a non-positive frequency, tenor or face
\* fails with InvalidInput before any cash flow is generated, any curve is
\* queried or any solver iteration runs.
C4_InvalidInputRejected ==
    (pc = "done"
       /\ (args.ins.m <= 0 \/ args.ins.n_years <= 0 \/ args.ins.face <= 0))
        => /\ result.kind = "InvalidInput"
           /\ result.flows = <<>> /\ flows = <<>>
           /\ queries = <<>>
           /\ nNewton = 0 /\ nBisect = 0

\* sum over the first j entries (t, amount) of fl of
\* amount * discount_factor(c(t), m, t)
DiscountedSum[p \in Seq(Int \X Int) \X [kind : STRING, a : Int, b : Int]
                     \X Int \X Nat] ==
    LET fl == p[1]
        j  == p[4]
    IN  IF j = 0 THEN 0
        ELSE DiscountedSum[<<fl, p[2], p[3], j - 1>>]
             + FMul(fl[j][2],
                    discount_factor(CurveAt(p[2], fl[j][1]).rate, p[3], fl[j][1]))

\* C5: price_fixed_rate_bond returns the sum over all entries (t, amount) of
\* the generated schedule of amount * discount_factor(curve(t), m, t); no
\* entry is skipped and the loop does not stop early.
C5_PriceIsFullSum ==
    (Done("price_fixed_rate_bond") /\ result.kind = "value") =>
        /\ Outcome("ok", flows) \in
             generate_cashflows(args.ins.face, args.ins.coupon_rate,
                                args.ins.m, args.ins.n_years)
        /\ result.val = DiscountedSum[<<flows, curve, args.ins.m, Len(flows)>>]

\* A bond of at least three flows priced on a curve that is not flat.
C5_Witness ==
    /\ Done("price_fixed_rate_bond") /\ result.kind = "value"
    /\ Len(flows) >= 3 /\ curve.kind = "linear"
    /\ result.val > 0

\* The times of the first n flows of the running pricer call.
FlowTimes(n) == [k \in 1..n |-> flows[k][1]]

\* C6: during one call of the pricer the curve is evaluated exactly once for
\* each cash flow, at that flow's own time, in increasing time order (for a
\* positive frequency), at no other time, and every call (also the second
\* one of dv01) evaluates it afresh.
C6_CurveQueriedOncePerFlow ==
    /\ pc = "price_loop" => queries = FlowTimes(idx - 1)
    /\ (pc = "done" /\ op \in {"price_fixed_rate_bond", "dv01"}
          /\ result.kind = "value") => queries = FlowTimes(Len(flows))
    /\ (pc = "done" /\ result.kind = "curve_error") => queries = FlowTimes(idx)
    /\ args.ins.m > 0 =>
         \A j, k \in 1..Len(queries) : j < k => queries[j] < queries[k]

\* The second pricer call of dv01 has queried the curve for every flow.
C6_Witness ==
    /\ Done("dv01") /\ result.kind = "value"
    /\ leg = 2 /\ nPrice = 2
    /\ Len(flows) >= 2 /\ Len(queries) = Len(flows)

\* C7: a curve that fails at some cash-flow time ends the pricer call with
\* that failure: no present value is returned and the error is not
\* translated; and what the pricer throws inside dv01 ends dv01 too.
C7_FailuresPropagate ==
    pc = "done" =>
        /\ (op = "price_fixed_rate_bond"
              /\ \E k \in 1..Len(flows) : ~CurveAt(curve, flows[k][1]).ok)
             => result = Thrown("curve_error")
        /\ (op \in {"price_fixed_rate_bond", "dv01"}
              /\ args.ins.n_years * args.ins.m <= -(Scale \div 2))
             => result = Thrown("length_error")

\* The curve failed after a first flow had been discounted.
C7_Witness ==
    /\ Done("price_fixed_rate_bond")
    /\ result = Thrown("curve_error")
    /\ Len(queries) >= 2 /\ pv > 0


\* The price of the running solver call at the flat yield yy, less the
\* market price.
Residual(yy) == pv_at(flows, args.ins.m, yy) - args.price

\* C8: in the Newton phase of yield_to_maturity the call returns the current
\* y exactly when |price(y) - market_price| < tol at the start of an
\* iteration, and in no other way: the residual tested is that of the
\* current y, the iteration goes on only when the test fails, and every
\* yield returned from the Newton phase passes the test.
C8_NewtonReturnsOnlyConverged ==
    /\ pc \in {"newton_test", "newton_step"} => diff = Residual(y)
    /\ pc = "newton_step" => Abs(diff) >= args.tol
    /\ (Done("yield_to_maturity") /\ phase = "newton") =>
         /\ result = Value(y)
         /\ diff = Residual(y)
         /\ Abs(diff) < args.tol

\* A yield returned by Newton after at least two steps.
C8_Witness ==
    /\ Done("yield_to_maturity") /\ phase = "newton"
    /\ result.kind = "value"
    /\ nNewton >= 3 /\ y # args.guess

\* C9: as soon as a Newton step leaves y outside the open interval (0, 1)
\* no further Newton iteration runs, and the next step of the solver is the
\* first bisection iteration on the bracket [0, 1].
C9_GuardHandsOffToBisection ==
    [][ /\ (pc = "newton_guard" /\ ~(0 < y /\ y < Scale))
            => (pc' = "bisect_init" /\ nNewton' = nNewton /\ nBisect' = 0)
        /\ (pc = "bisect_init" /\ handoff = "guard")
            => (pc' = "bisect_head" /\ lo' = 0 /\ hi' = Scale /\ i' = 0
                /\ nNewton' = nNewton /\ nBisect' = 0)
        /\ (pc = "bisect_head" /\ handoff = "guard" /\ nBisect = 0)
            => (pc' = "bisect_body" /\ lo' = 0 /\ hi' = Scale
                /\ nNewton' = nNewton /\ nBisect' = 1)
        /\ (handoff = "guard" /\ pc' # "idle") => nNewton' = nNewton
      ]_vars

\* The guard tripped on a y of 1 or more and the first bisection iteration
\* is about to run on [0, 1].
C9_Witness ==
    /\ pc = "bisect_body" /\ handoff = "guard"
    /\ y >= Scale
    /\ nBisect = 1 /\ lo = 0 /\ hi = Scale

\* C10: when the Newton phase has used up max_iter iterations without
\* converging and without tripping the guard, the solver hands off to
\* bisection just as when the guard trips; the last Newton iterate is not
\* returned.
C10_ExhaustionHandsOffToBisection ==
    [][ /\ (pc = "newton_head" /\ i >= args.max_iter)
            => (pc' = "bisect_init" /\ result' = NoResult
                /\ nNewton = Budget /\ nNewton' = nNewton)
        /\ (pc = "bisect_init" /\ handoff = "exhausted")
            => (pc' = "bisect_head" /\ lo' = 0 /\ hi' = Scale /\ i' = 0
                /\ nNewton' = nNewton /\ nBisect' = 0)
        /\ (handoff = "exhausted" /\ pc' # "idle") => nNewton' = nNewton
        /\ (handoff' = "exhausted" /\ pc' = "done")
            => (phase' = "bisect"
                /\ result' \in {Thrown("runtime_error"), Value(mid')})
      ]_vars

\* Newton ran out of three or more iterations inside (0, 1) and bisection
\* has taken over.
C10_Witness ==
    /\ pc = "bisect_body" /\ handoff = "exhausted"
    /\ args.max_iter >= 3 /\ nNewton = args.max_iter
    /\ 0 < y /\ y < Scale
    /\ lo = 0 /\ hi = Scale


\* C11: the bisection phase starts from [lo, hi] = [0, 1]; each iteration
\* computes mid = (lo + hi) / 2 and sets lo to mid if price(mid) is above the
\* market price, and otherwise (also when they are equal) hi to mid; the
\* other end of the bracket is left as it was.
C11_BisectionRule ==
    [][ /\ pc = "bisect_init" => (lo' = 0 /\ hi' = Scale)
        /\ pc = "bisect_body" =>
             /\ 2 * mid' = lo + hi
             /\ IF Residual(mid') > 0
                THEN lo' = mid' /\ hi' = hi
                ELSE hi' = mid' /\ lo' = lo
      ]_vars

\* The second iteration has just met a mid whose price is the market price,
\* and moved hi to it.
C11_Witness ==
    /\ phase = "bisect" /\ pc \in {"bisect_head", "done"}
    /\ flows # <<>> /\ nBisect = 2
    /\ Residual(mid) = 0 /\ hi = mid /\ 2 * mid = Scale \div 2

\* C12: the bisection phase returns a value only in an iteration after whose
\* bracket update hi - lo < tol, and the value is that iteration's mid; so
\* every yield returned by it lies in a bracket narrower than tol.
C12_BisectionReturnsClosedBracket ==
    /\ (Done("yield_to_maturity") /\ phase = "bisect" /\ result.kind = "value")
         => /\ result = Value(mid)
            /\ hi - lo < args.tol
            /\ lo <= mid /\ mid <= hi
            /\ nBisect = i + 1
    /\ (pc = "bisect_head" /\ i > 0) => hi - lo >= args.tol

\* Bisection returned after several iterations.
C12_Witness ==
    /\ Done("yield_to_maturity") /\ phase = "bisect"
    /\ result.kind = "value" /\ nBisect >= 5
    /\ 0 < lo /\ hi < Scale

\* C13: when the bisection phase has run max_iter iterations and the bracket
\* is still not narrower than tol, the call fails (DidNotConverge, the
\* std::runtime_error) and returns no yield; no bisection result that missed
\* the tolerance test is returned.
C13_BisectionExhaustionThrows ==
    (Done("yield_to_maturity") /\ phase = "bisect") =>
        /\ ~(hi - lo < args.tol) =>
             (result = Thrown("runtime_error") /\ nBisect = Budget)
        /\ result.kind \in {"value", "runtime_error"}
        /\ result.kind = "runtime_error" =>
             (nBisect = Budget /\ i = Budget
              /\ (i > 0 => hi - lo >= args.tol))

\* Three or more bisection iterations ran and the call threw.
C13_Witness ==
    /\ Done("yield_to_maturity") /\ phase = "bisect"
    /\ result = Thrown("runtime_error")
    /\ nBisect >= 3 /\ hi - lo >= args.tol /\ hi - lo < Scale


\* The market price of the running solver call is above the price at yield 0
\* or below the price at yield 1.
PriceOutOfBracket ==
    \/ args.price > pv_at(flows, args.ins.m, 0)
    \/ args.price < pv_at(flows, args.ins.m, Scale)

\* C14 (as claimed): when the market price lies outside the prices spanned
\* by the yields of [0, 1] and the solver reaches bisection, the call fails
\* with DidNotConverge; it returns no yield next to 0 or 1.
C14_OutOfRangePriceRejected ==
    (Done("yield_to_maturity") /\ phase = "bisect"
       /\ args.ins \in Bonds /\ PriceOutOfBracket)
        => result = Thrown("runtime_error")


\* ---- round trip price -> yield ----

RoundTripCall == Done("yield_to_maturity") /\ quote >= 0
FullBudget == args.max_iter = MaxIter /\ args.tol = Pct(1)

\* C15 (as stated): for a valid instrument and a rate y in (0, 1), the
\* solver applied to the price of the bond on the flat curve at y returns a
\* yield within tolerance of y.  Stated for the calls whose iteration budget
\* lets bisection close its bracket, so that no call here ends by the
\* non-convergence failure.
C15_RoundTrip ==
    (RoundTripCall /\ FullBudget)
        => (result.kind = "value" /\ Abs(result.val - quote) < args.tol)

\* C15 (amended): the solver applied to the price at y either fails with
\* the non-convergence error, or returns from bisection a yield within
\* tolerance of y, or returns from Newton a yield whose PRICE is within
\* tolerance of the market price; that yield is within tolerance of y for
\* the face-1000 bonds, whose price moves faster than the yield, at a
\* tolerance (0.01) the arithmetic resolves.  With the full iteration budget
\* a yield is always returned.
C15_RoundTripAmended ==
    RoundTripCall =>
        /\ \/ result = Thrown("runtime_error")
           \/ /\ result.kind = "value" /\ phase = "bisect"
              /\ Abs(result.val - quote) < args.tol
           \/ /\ result.kind = "value" /\ phase = "newton"
              /\ Abs(Residual(result.val)) < args.tol
              /\ (args.ins \in Bonds /\ args.tol = Pct(1))
                    => Abs(result.val - quote) < args.tol
        /\ FullBudget => result.kind = "value"

C15_Witness ==
    /\ RoundTripCall /\ args.ins \in Bonds /\ quote = Pct(50)
    /\ result.kind = "value" /\ Abs(result.val - quote) < args.tol
    /\ nNewton + nBisect >= 3


\* ---- accuracy of the returned yield ----

\* The yields 0.001 and 0.999 at the resolution of the model.
YieldLow == Scale \div 1000
YieldHigh == Scale - Scale \div 1000

PriceInSolvableRange ==
    /\ args.price > pv_at(flows, args.ins.m, YieldHigh)
    /\ args.price < pv_at(flows, args.ins.m, YieldLow)

\* The calls C16 is about: the market price is the price at the known root
\* `quote`, strictly between the prices at 0.999 and 0.001, for a face-1000
\* bond; tolerance 0.01.
AccuracyCall ==
    /\ RoundTripCall /\ args.ins \in Bonds /\ args.tol = Pct(1)
    /\ PriceInSolvableRange

AllPositive(fl) == Len(fl) >= 1 /\ \A k \in 1..Len(fl) : fl[k][2] > 0

\* Yields of [0, 1] the price is compared at: a fixed grid and the bracket
\* the running bisection holds.
YieldGrid == {0, Pct(3), Pct(50), Scale}
YieldsInPlay == YieldGrid \cup {lo, mid, hi}

\* Two yields closer than this (about 0.001) can have prices that the
\* fixed-point numbers do not tell apart.
MinGap == Scale \div (2^10)

\* C17: for a schedule whose cash flows are all positive the flat-curve
\* price is decreasing in the yield on [0, 1], strictly for yields at
\* least MinGap apart; in the bisection,
\* price(mid) > market_price therefore puts every root above mid.
C17_PriceStrictlyDecreasing ==
    (pc = "bisect_head" /\ args.ins \in Bonds /\ AllPositive(flows)) =>
        LET price == [v \in YieldsInPlay |-> pv_at(flows, args.ins.m, v)]
        IN  /\ \A y1, y2 \in YieldsInPlay :
                 /\ y1 < y2 => price[y1] >= price[y2]
                 /\ y1 + MinGap <= y2 => price[y1] > price[y2]
            /\ (i > 0 /\ lo = mid) =>
                 \A r \in YieldGrid : price[r] = args.price => r > mid

C17_Witness ==
    /\ op = "yield_to_maturity" /\ args.ins \in Bonds /\ AllPositive(flows)
    /\ Len(flows) >= 2 /\ pc = "bisect_head" /\ i >= 3
    /\ 0 < lo /\ lo = mid /\ hi < Scale
    /\ pv_at(flows, args.ins.m, lo) > pv_at(flows, args.ins.m, hi)
    /\ \E r \in YieldGrid : Residual(r) = 0


\* ---- dv01 ----

\* The price of the flows of the running call on the flat curve at r.
FlatPriceOfFlows(r) == DiscountedSum[<<flows, Flat(r), args.ins.m, Len(flows)>>]

\* C18: dv01 calls the pricer exactly twice, first on the flat curve at
\* ytm + bump, then on the flat curve at ytm - bump, never enters the yield
\* solver, and returns 0.5 x (price at ytm - bump minus price at ytm + bump).
C18_Dv01PricesTwice ==
    op = "dv01" =>
        /\ nNewton = 0 /\ nBisect = 0 /\ phase = "none" /\ nPrice <= 2
        /\ (pc = "price_loop" /\ leg = 1) =>
              (nPrice = 1 /\ curve = Flat(args.ytm + args.bp))
        /\ (pc = "price_loop" /\ leg = 2) =>
              /\ nPrice = 2 /\ curve = Flat(args.ytm - args.bp)
              /\ pv_up = FlatPriceOfFlows(args.ytm + args.bp)
        /\ (pc = "done" /\ result.kind = "value") =>
              /\ nPrice = 2 /\ leg = 2
              /\ 2 * result.val
                    \in { d + e : e \in {-1, 0, 1},
                                 d \in {FlatPriceOfFlows(args.ytm - args.bp)
                                          - FlatPriceOfFlows(args.ytm + args.bp)} }

C18_Witness ==
    /\ Done("dv01") /\ result.kind = "value" /\ nPrice = 2
    /\ args.ins \in Bonds /\ Len(flows) >= 2 /\ args.bp > 0
    /\ pv_up < pv /\ result.val > FromInt(1)


\* C19: for an instrument whose cash flows are all positive and a positive
\* bump, dv01 returns a strictly positive value.
C19_Dv01Positive ==
    (Done("dv01") /\ result.kind = "value" /\ AllPositive(flows) /\ args.bp > 0)
        => (result.val > 0 /\ pv > pv_up)

C19_Witness ==
    /\ Done("dv01") /\ result.kind = "value" /\ AllPositive(flows)
    /\ args.bp > 0 /\ args.ins.coupon_rate > 0 /\ Len(flows) = 2 * MaxYears
    /\ result.val > 0

\* With a bump of zero both prices are equal and dv01 returns 0: the
\* positive bump is needed.
C19_ZeroBump ==
    (Done("dv01") /\ result.kind = "value" /\ args.bp = 0) => result.val = 0


\* ---- interleaved solver calls ----

\* The outcome of a call with arguments a that runs alone, from its first
\* step to its return or throw.
RunFrom[f \in STRING
            \X [ins : [face : Int, coupon_rate : Int, m : Int, n_years : Int],
                price : Int, tol : Int, max_iter : Int, guess : Int,
                ytm : Int, bp : Int]
            \X [flows : Seq(Int \X Int), y : Int, i : Int, diff : Int,
                lo : Int, hi : Int, mid : Int]] ==
    LET r == SolverStep(f[1], f[2], f[3])
    IN  IF r.pc = "done" THEN r.result ELSE RunFrom[<<r.pc, f[2], r.loc>>]

RunAlone(a) == RunFrom[<<"start", a, NoLocals>>]

\* The step function agrees with the actions of the single call: a call of
\* the sequential machine on a valid bond ends as RunAlone says.
SolverStepAgrees ==
    (Done("yield_to_maturity") /\ args.ins \in RoundTripBonds)
        => result = RunAlone(args)

\* C20: the solver state is private to one call: when calls are
\* interleaved step by step in any order, each call ends with the outcome
\* (yield or failure) it has when it runs alone.
AloneOutcome == [a \in ConcArgs |-> RunAlone(a)]

C20_InterleavedCallsIndependent ==
    \A c \in Calls :
        calls[c].pc = "done" => calls[c].result = AloneOutcome[calls[c].args]

\* Two interleaved calls with different arguments have both ended, each
\* after iterating, one with a yield and one by throwing.
C20_Witness ==
    /\ \A c \in Calls : calls[c].pc = "done"
    /\ calls[1].args # calls[2].args
    /\ calls[1].result.kind = "value" /\ calls[2].result.kind = "runtime_error"
    /\ store[1].i > 0 /\ store[2].i > 0


\* ---- termination ----

ValidSolverCall == op = "yield_to_maturity" /\ args.ins \in RoundTripBonds

\* C21: every solver call on a valid instrument ends, by returning a yield
\* or by the non-convergence failure, after at most max_iter Newton
\* iterations followed by at most max_iter bisection iterations.
C21_SolverTerminates ==
    /\ [](ValidSolverCall =>
            /\ nNewton <= Budget /\ nBisect <= Budget
            /\ nBisect > 0 => phase = "bisect")
    /\ ValidSolverCall ~>
          (ValidSolverCall /\ pc = "done"
             /\ result.kind \in {"value", "runtime_error"})

\* A call that used its whole budget in both loops and then failed.
C21_Witness ==
    /\ ValidSolverCall /\ pc = "done" /\ result = Thrown("runtime_error")
    /\ args.max_iter = MaxIter
    /\ nNewton = args.max_iter /\ nBisect = args.max_iter


\* ---- order of the phases ----

InSolver == op = "yield_to_maturity"

\* C22: the phases follow Newton-running -> (converged | handed-off) ->
\* Bisection-running -> (converged | failed): bisection starts only from
\* Newton's handoff, Newton never runs again once bisection has started,
\* the non-convergence failure is raised only from the bisection phase, and
\* after the call has returned or thrown no step of the solver follows.
C22_PhaseOrder ==
    [][ InSolver =>
          /\ (phase # "bisect" /\ phase' = "bisect") =>
                (phase = "newton" /\ pc = "bisect_init" /\ handoff # "none"
                   /\ nBisect = 0)
          /\ (phase = "bisect" /\ pc # "done") =>
                (phase' = "bisect" /\ nNewton' = nNewton
                   /\ pc' \in {"bisect_head", "bisect_body", "done"})
          /\ phase = "newton" => nBisect' = 0
          /\ (result # Thrown("runtime_error") /\ result' = Thrown("runtime_error"))
                => (phase = "bisect" /\ pc = "bisect_head")
          /\ pc = "done" => (pc' = "idle" /\ op' = "none" /\ phase' = "none")
      ]_vars

\* A call that iterated in Newton, handed off through the guard, iterated in
\* bisection and converged there.
C22_Witness ==
    /\ InSolver /\ pc = "done" /\ phase = "bisect" /\ handoff = "guard"
    /\ nNewton >= 2 /\ nBisect >= 2 /\ result.kind = "value"


\* ---- the solver's price is the pricer's ----

\* The Curve Pricer on the instrument of the running call and the flat
\* curve returning r.
PricerAt(r) == price_fixed_rate_bond(args.ins, Flat(r))

\* C23: for every yield the solver evaluates, the price it computes
\* internally is the result of the pricer on the same instrument and the
\* flat curve at that yield: the Newton residual is that price minus the
\* market price, and the bisection moves lo exactly when that price is
\* above the market price.
C23_SolverPriceIsPricerPrice ==
    ValidSolverCall =>
        /\ pc \in {"newton_test", "newton_step"} =>
              diff = PricerAt(y) - args.price
        /\ (phase = "bisect" /\ nBisect > 0 /\ pc \in {"bisect_head", "done"}) =>
              /\ lo = mid <=> PricerAt(mid) > args.price
              /\ hi = mid <=> PricerAt(mid) <= args.price

\* Both kinds of evaluation happened in one call on a bond with coupons:
\* a Newton residual was computed and bisection has moved lo and hi.
C23_Witness ==
    /\ ValidSolverCall /\ Len(flows) >= 2 /\ args.ins.coupon_rate > 0
    /\ phase = "bisect" /\ pc = "bisect_head" /\ nNewton >= 1
    /\ 0 < lo /\ hi < Scale /\ diff # 0


\* ---- the derivative of the Newton step ----

\* Sum over the first k flows of
\*   -m x time x cashflow x discount_factor(y, m, time) / (1 + y/m).
\* p = <<flows, m, y, k>>.
DerivativeArgs == Seq(Int \X Int) \X Int \X Int \X Nat
DerivativeSum[p \in DerivativeArgs] ==
    LET fl == p[1]  m == p[2]  yy == p[3]  k == p[4] IN
    IF k = 0 THEN 0
    ELSE DerivativeSum[<<fl, m, yy, k - 1>>]
           + FDiv(FMul(FMul(-(m * fl[k][1]), fl[k][2]),
                       discount_factor(yy, m, fl[k][1])),
                  Scale + FDivInt(yy, m))

\* C24: the derivative of each Newton step is that sum over all flows,
\* taken at the yield of the residual of the same iteration; for all-positive
\* flows and y > -m it is strictly negative, so the step divides by a
\* non-zero number.
C24_NewtonDerivative ==
    [][ (ValidSolverCall /\ pc = "newton_step") =>
          LET d == DerivativeSum[<<flows, args.ins.m, y, Len(flows)>>] IN
          /\ diff = Residual(y)
          /\ (AllPositive(flows) /\ y > -(args.ins.m * Scale)) => d < 0
          /\ d # 0 => y' = y - FDiv(diff, d)
      ]_vars

\* A Newton step was taken, for a bond with coupons, at a yield that is not
\* the initial guess.
C24_Witness ==
    /\ ValidSolverCall /\ pc = "newton_guard" /\ i >= 1
    /\ AllPositive(flows) /\ Len(flows) >= 2
    /\ DerivativeSum[<<flows, args.ins.m, y, Len(flows)>>] < 0
    /\ diff # 0


\* ---- a market price no yield of (0, 1) achieves ----

AtOrAboveBracket == args.price >= pv_at(flows, args.ins.m, 0)
AtOrBelowBracket == args.price <= pv_at(flows, args.ins.m, Scale)

\* max_iter halvings bring the bracket [0, 1] below the tolerance.
EnoughIterations == (2^Budget) * args.tol > Scale

\* C25: when no yield in (0, 1) achieves the market price and the solver
\* reaches bisection with enough iterations to close the bracket, bisection
\* returns, without any error, a yield within tolerance of 0 (market price
\* at or above every price in the bracket) or of 1 (market price below
\* every price in the bracket); the price of that yield is not within
\* tolerance of the market price.
C25_BoundaryConvergence ==
    (Done("yield_to_maturity") /\ phase = "bisect" /\ args.ins \in Bonds
       /\ EnoughIterations /\ (AtOrAboveBracket \/ AtOrBelowBracket)) =>
        /\ result.kind = "value" /\ result.val = mid
        /\ AtOrAboveBracket =>
              (lo = 0 /\ 0 < result.val /\ result.val < args.tol)
        /\ AtOrBelowBracket =>
              (hi = Scale /\ result.val < Scale /\ Scale - result.val < args.tol)
        /\ Abs(Residual(result.val)) >= args.tol

\* A market price below the price at yield 1: the returned yield is just
\* under 1.
C25_Witness ==
    /\ Done("yield_to_maturity") /\ phase = "bisect" /\ args.ins \in Bonds
    /\ EnoughIterations /\ args.price < pv_at(flows, args.ins.m, Scale)
    /\ result.kind = "value" /\ Scale - result.val < args.tol
    /\ nBisect >= 7


\* ---- range of the returned yield ----

ReturnedYield == Done("yield_to_maturity") /\ result.kind = "value"

\* C26: every yield the solver returns is either the unchanged initial
\* guess, returned at the first Newton iteration whatever its value, or a
\* value strictly inside (0, 1).
C26_ReturnedYieldRange ==
    ReturnedYield =>
        \/ /\ phase = "newton" /\ nNewton = 1 /\ i = 0
           /\ result.val = args.guess
        \/ 0 < result.val /\ result.val < Scale

\* The initial guess 1.5, outside (0, 1), was returned at the first Newton
\* iteration.
C26_Witness ==
    /\ ReturnedYield /\ phase = "newton" /\ nNewton = 1
    /\ result.val = args.guess /\ args.guess > Scale


\* ---- the bisection bracket ----

InBisection == InSolver /\ phase = "bisect"

\* Bisection iterations completed in the current state.
Halvings == IF pc = "done" /\ result.kind = "value" THEN i + 1 ELSE i

\* C27: in every state of the bisection phase 0 <= lo < hi <= 1, lo never
\* decreases, hi never increases, and after k completed iterations
\* hi - lo = 2^(-k); so bisection returns at the first iteration k with
\* 2^(-k) < tolerance, whatever the instrument and the market price, and
\* when max_iter is smaller than that k every call that reaches bisection
\* fails.
C27_BracketHalves ==
    /\ [](InBisection =>
            /\ 0 <= lo /\ lo < hi /\ hi <= Scale
            /\ (hi - lo) * (2^Halvings) = Scale
            /\ (pc = "done" /\ result.kind = "value") =>
                  /\ (2^Halvings) * args.tol > Scale
                  /\ (2^(Halvings - 1)) * args.tol <= Scale
            /\ (pc = "done" /\ ~EnoughIterations) =>
                  (result = Thrown("runtime_error") /\ Halvings = Budget)
            /\ (pc = "done" /\ EnoughIterations) => result.kind = "value")
    /\ [][(InBisection /\ pc # "done") => (lo <= lo' /\ hi' <= hi)]_vars

\* Bisection returned at its 7th iteration, the first with 2^(-k) < 0.01,
\* after moving both ends.
C27_Witness ==
    /\ InBisection /\ pc = "done" /\ result.kind = "value"
    /\ Halvings = 7 /\ args.tol = Pct(1) /\ 0 < lo /\ hi < Scale


\* C28: in every state of the bisection phase lo is 0 or a yield whose price
\* is strictly greater than the market price, and hi is 1 or a yield whose
\* price is at most the market price; so when price(0) > market price >=
\* price(1) the root stays inside [lo, hi] at every iteration.
C28_BracketHoldsRoot ==
    InBisection =>
        /\ lo = 0 \/ Residual(lo) > 0
        /\ hi = Scale \/ Residual(hi) <= 0
        /\ (quote >= 0 /\ args.ins \in Bonds) => (lo <= quote /\ quote <= hi)

\* The market price is the price at the root 0.5, below the price at 0 and
\* not below the price at 1, and both ends have moved.
C28_Witness ==
    /\ InBisection /\ pc = "bisect_head" /\ quote = Pct(50)
    /\ args.ins \in Bonds /\ Len(flows) >= 2
    /\ 0 < lo /\ hi < Scale /\ i >= 3
    /\ Residual(0) > 0 /\ Residual(Scale) <= 0 /\ Residual(quote) = 0
    /\ Residual(lo) > 0 /\ Residual(hi) <= 0


\* ---- no iteration budget ----

\* The call obtained its cash flows and entered the Newton loop.
SolverEntered == InSolver /\ phase # "none"

\* C29: with max_iter <= 0 the solver runs no Newton iteration and no
\* bisection iteration and fails with the non-convergence error for every
\* input, even when the initial guess already reproduces the market price.
C29_NoBudgetFails ==
    (SolverEntered /\ args.max_iter <= 0) =>
        /\ nNewton = 0 /\ nBisect = 0 /\ y = args.guess
        /\ pc \in {"newton_head", "bisect_init", "bisect_head", "done"}
        /\ pc = "done" => result = Thrown("runtime_error")

\* The failed call was given, as its guess, the very rate its market price
\* was computed at.
C29_Witness ==
    /\ SolverEntered /\ args.max_iter <= 0 /\ pc = "done"
    /\ result = Thrown("runtime_error")
    /\ quote = args.guess /\ Residual(args.guess) = 0
    /\ nNewton = 0 /\ nBisect = 0


\* ---- dv01 and its market price argument ----

\* What dv01 returns for a valid bond, as a function of the instrument, the
\* yield and the bump alone.
Dv01ByInstrument ==
    [q \in Bonds \X Ytms \X Bumps |->
        LET down == price_fixed_rate_bond(q[1], Flat(q[2] - q[3]))
            up   == price_fixed_rate_bond(q[1], Flat(q[2] + q[3]))
        IN  Value(FMul(Scale \div 2, down - up))]

\* C30: the result of dv01 does not depend on its market price argument:
\* the calls that differ only in the market price return the same value,
\* the one fixed by the instrument, the yield and the bump.
C30_Dv01IgnoresPrice ==
    (Done("dv01") /\ args.ins \in Bonds) =>
        result = Dv01ByInstrument[<<args.ins, args.ytm, args.bp>>]

\* A call with the market price 900 and one with the market price 1000 are
\* both made; this is the one with 900, for a bond with coupons.
C30_Witness ==
    /\ Done("dv01") /\ args.ins \in Bonds /\ args.price = FromInt(900)
    /\ args.bp > 0 /\ args.ins.coupon_rate > 0
    /\ result = Dv01ByInstrument[<<args.ins, args.ytm, args.bp>>]
    /\ result.val > 0

=============================================================================
